---- MODULE Spec2Model ----
(***************************************************************************)
(* The TDD crew of autogen_tdd_crew.py: five agents in one autogen        *)
(* GroupChat, driven by a GroupChatManager, started by the Executor.      *)
(*                                                                         *)
(* The script builds the objects; the turn loop is the one the objects    *)
(* run when built this way:                                                *)
(*   - GroupChat(agents, messages=[], max_round=50) with no speaker       *)
(*     selection method and no transition graph: the next speaker is      *)
(*     whichever roster member the language model names;                  *)
(*   - GroupChatManager(groupchat, llm_config) with no is_termination_msg:*)
(*     the manager stops on a message whose content is exactly TERMINATE; *)
(*   - the Executor, a UserProxyAgent with human_input_mode="ALWAYS": it  *)
(*     reads one line through get_human_input before anything else, and   *)
(*     its own is_termination_msg is content.rstrip().endswith(TERMINATE).*)
(* A message's text is abstracted to its kind (what it reports) and, for  *)
(* a human instruction, the agent it names.                               *)
(***************************************************************************)
EXTENDS Integers, Sequences, FiniteSets, TLC

VARIABLES
    messages,     \* groupchat.messages: the transcript, a sequence of turns
    round,        \* rounds of the manager's loop completed (turns appended)
    speaker,      \* the agent selected to speak (or that spoke last)
    pc,           \* where the session is: init, select, reply, human, exec, done, raised
    human_reply,  \* what get_human_input returned in the current Executor turn
    execs,        \* number of command executions the Executor has performed
    result        \* how executor.initiate_chat(...) ended

vars == <<messages, round, speaker, pc, human_reply, execs, result>>

(***************************************************************************)
(* Bounds of the exploration.                                              *)
(***************************************************************************)
\* Spec explores sessions from their start, up to this many turns.
MaxTurns == 4
\* SpecBudget explores the last MaxTail turns before the round ceiling.
MaxTail == 3

(***************************************************************************)
(* The configuration the script fixes.                                     *)
(***************************************************************************)
Assistants == {"Planner", "Tester", "Coder", "Linter"}

Agents == Assistants \cup {"Executor"}

max_round == 50

max_consecutive_auto_reply == 10

human_input_mode_never == "NEVER"

human_input_mode == "ALWAYS"

\* The three forms of input the prompt of get_human_input offers.
Approve == ""

Quit == "exit"

NoOne == "nobody"

Unread == "<unread>"

EndOfInput == "<EOF>"

\* A typed instruction is abstracted to the agent it names (or nobody), or is
\* the bare word TERMINATE.
Instructions == Agents \cup {NoOne, "TERMINATE"}

HumanInputs == {Approve, Quit} \cup Instructions

IsQuitTypo(reply) == reply = "quit"

IsQuit(reply) == reply = Quit

(***************************************************************************)
(* Turns.                                                                   *)
(***************************************************************************)
Turn(a, k, n) == [name |-> a, kind |-> k, names |-> n]

initial_task == Turn("Executor", "TASK", "Planner")

\* What each assistant's system message asks it to produce, one report that
\* is not its to make, and the two ways a text can end the conversation:
\* some text ending in TERMINATE, or the bare word.
LLMKinds(a) ==
    (CASE a = "Planner" -> {"PLAN"}
       [] a = "Tester"  -> {"TEST_WRITTEN"}
       [] a = "Coder"   -> {"CODE_WRITTEN"}
       [] a = "Linter"  -> {"LINT_CLEAN", "LINT_DIRTY"})
    \cup {"TEST_PASS", "ENDS_TERMINATE", "IS_TERMINATE"}

\* executor.is_termination_msg: content.rstrip().endswith("TERMINATE")
ExecutorIsTermination(t) == t.kind \in {"ENDS_TERMINATE", "IS_TERMINATE"}

\* The manager is given no is_termination_msg: content == "TERMINATE"
ManagerIsTermination(t) == t.kind = "IS_TERMINATE"

\* The turn a human instruction (or an empty reply) becomes.
HumanTurn(reply) ==
    IF reply = Approve THEN Turn("Executor", "EMPTY", NoOne)
    ELSE IF reply = "TERMINATE" THEN Turn("Executor", "IS_TERMINATE", NoOne)
    ELSE Turn("Executor", "HUMAN_TEXT", IF reply \in Agents THEN reply ELSE NoOne)

\* The report of a command execution: exit code 0 or not.
ExecutionTurn(exitcode) ==
    Turn("Executor", IF exitcode = 0 THEN "TEST_PASS" ELSE "TEST_FAIL", NoOne)

\* The speaker each system message tells its agent to name next.
NextNamed ==
    [p \in {<<"Planner", "PLAN">>, <<"Tester", "TEST_WRITTEN">>,
            <<"Executor", "TEST_FAIL">>, <<"Executor", "TEST_PASS">>,
            <<"Coder", "CODE_WRITTEN">>, <<"Linter", "LINT_DIRTY">>,
            <<"Linter", "LINT_CLEAN">>} |->
        CASE p = <<"Planner", "PLAN">>          -> "Tester"
          [] p = <<"Tester", "TEST_WRITTEN">>   -> "Executor"
          [] p = <<"Executor", "TEST_FAIL">>    -> "Coder"
          [] p = <<"Executor", "TEST_PASS">>    -> "Linter"
          [] p = <<"Coder", "CODE_WRITTEN">>    -> "Executor"
          [] p = <<"Linter", "LINT_DIRTY">>     -> "Coder"
          [] p = <<"Linter", "LINT_CLEAN">>     -> "Planner"]

(***************************************************************************)
(* The manager's loop: for i in range(max_round): append, stop on a       *)
(* termination message or on the last round, else select and let speak.   *)
(***************************************************************************)
PrependTurn(m, t) == <<t>> \o m

AppendTurn(m, t) == Append(m, t)

LastRoundOffByOne(i) == i = max_round

LastRoundNever(i) == FALSE

LastRound(i) == i = max_round - 1

\* initiate_chat returns the same way whatever ended the loop.
RunChatReturn == "returned"

Last == messages[Len(messages)]

Deliver(t) ==
    /\ messages' = AppendTurn(messages, t)
    /\ round' = round + 1
    /\ IF ManagerIsTermination(t) \/ LastRound(round)
       THEN pc' = "done" /\ result' = RunChatReturn
       ELSE pc' = "select" /\ result' = result

Init ==
    /\ messages = << >>
    /\ round = 0
    /\ speaker = "Executor"
    /\ pc = "init"
    /\ human_reply = Unread
    /\ execs = 0
    /\ result = "pending"

\* executor.initiate_chat(manager, message=initial_task)
InitiateChat ==
    /\ pc = "init"
    /\ Deliver(initial_task)
    /\ UNCHANGED <<speaker, human_reply, execs>>

\* Where a selected Executor starts its turn.
ExecutorEntry(last) ==
    IF human_input_mode = "ALWAYS" THEN "human"
    ELSE IF ExecutorIsTermination(last) THEN "done"
    ELSE "exec"

\* groupchat.select_speaker: the model names any agent of the roster.
Select ==
    /\ pc = "select"
    /\ \E a \in Agents :
        /\ speaker' = a
        /\ IF a = "Executor"
           THEN /\ pc' = ExecutorEntry(Last)
                /\ human_reply' = Unread
                /\ result' = IF pc' = "done" THEN RunChatReturn ELSE result
           ELSE /\ pc' = "reply"
                /\ UNCHANGED <<human_reply, result>>
    /\ UNCHANGED <<messages, round, execs>>

SelectSpeaker == Len(messages) < MaxTurns /\ Select

\* An assistant's reply: whatever the model writes.
AssistantReply ==
    /\ pc = "reply"
    /\ \E k \in LLMKinds(speaker) : Deliver(Turn(speaker, k, NoOne))
    /\ UNCHANGED <<speaker, human_reply, execs>>

\* CleanUserProxyAgent.get_human_input and what the Executor does with the line.
HumanInput ==
    /\ pc = "human"
    /\ \E inp \in HumanInputs \cup {EndOfInput} :
        IF inp = EndOfInput
        THEN \* input() raises EOFError; nothing catches it
             /\ pc' = "raised"
             /\ result' = "EOFError"
             /\ human_reply' = EndOfInput
             /\ UNCHANGED <<messages, round, execs>>
        ELSE LET reply == IF inp = Approve /\ ExecutorIsTermination(Last)
                          THEN Quit ELSE inp
             IN /\ human_reply' = inp
                /\ IF IsQuit(reply)
                   THEN /\ pc' = "done"
                        /\ result' = RunChatReturn
                        /\ UNCHANGED <<messages, round, execs>>
                   ELSE IF reply # Approve \/ max_consecutive_auto_reply = 0
                   THEN /\ Deliver(HumanTurn(reply))
                        /\ UNCHANGED execs
                   ELSE \E code \in BOOLEAN :
                        IF code
                        THEN /\ pc' = "exec"
                             /\ UNCHANGED <<messages, round, execs, result>>
                        ELSE /\ Deliver(HumanTurn(Approve))
                             /\ UNCHANGED execs
    /\ UNCHANGED speaker

\* The Executor runs the code blocks and reports the exit code.
Execute ==
    /\ pc = "exec"
    /\ execs' = execs + 1
    /\ \E exitcode \in {0, 1} : Deliver(ExecutionTurn(exitcode))
    /\ UNCHANGED <<speaker, human_reply>>

Next == InitiateChat \/ SelectSpeaker \/ AssistantReply \/ HumanInput \/ Execute

Spec == Init /\ [][Next]_vars

(***************************************************************************)
(* The end of a long session: the Coder and the Executor have taken turns *)
(* on failing tests (each run approved by the human) until MaxTail rounds *)
(* are left, and the last rounds are explored in full.                    *)
(***************************************************************************)
Oscillation(n) ==
    [k \in 1..n |->
        IF k = 1 THEN initial_task
        ELSE IF k % 2 = 0 THEN Turn("Coder", "CODE_WRITTEN", NoOne)
        ELSE ExecutionTurn(1)]

InitBudget ==
    /\ messages = Oscillation(max_round - MaxTail)
    /\ round = max_round - MaxTail
    /\ speaker = messages[Len(messages)].name
    /\ pc = "select"
    /\ human_reply = Approve
    /\ execs = (max_round - MaxTail - 1) \div 2
    /\ result = "pending"

NextBudget == Select \/ AssistantReply \/ HumanInput \/ Execute

SpecBudget == InitBudget /\ [][NextBudget]_vars

(***************************************************************************)
(* Vocabulary of the properties.                                           *)
(***************************************************************************)
IsPrefix(s, t) == Len(s) <= Len(t) /\ \A k \in 1..Len(s) : s[k] = t[k]

\* An agent has been selected and has not yet delivered its turn.
Speaking == pc \in {"reply", "human", "exec"}

LastPair == <<Last.name, Last.kind>>

\* The last turn's (actor, outcome) is in no row of the table: not one of the
\* seven pairs, not the opening task, not a human instruction, not TERMINATE.
InvalidPair ==
    /\ Len(messages) > 0
    /\ LastPair \notin DOMAIN NextNamed
    /\ Last.kind \notin {"TASK", "HUMAN_TEXT", "ENDS_TERMINATE", "IS_TERMINATE"}

NoTerminateTurn ==
    \A k \in 1..Len(messages) : ~ExecutorIsTermination(messages[k])

(***************************************************************************)
(* C1: whenever an agent has been chosen to speak after a turn whose      *)
(* (actor, outcome) is one of the seven pairs of the transition table, it *)
(* is the agent the table gives for that pair.                            *)
(* Fails: the GroupChat lets the model choose any agent of the roster.    *)
(***************************************************************************)
C1_TableRouting ==
    (Speaking /\ LastPair \in DOMAIN NextNamed) => speaker = NextNamed[LastPair]

(***************************************************************************)
(* C2: whenever the last turn's (actor, outcome) pair is absent from the  *)
(* table, the session has halted with InvalidOutcome and no next actor is *)
(* selected.                                                               *)
(* Fails: nothing classifies a turn; the manager goes on to select.       *)
(***************************************************************************)
C2_InvalidOutcomeHalts ==
    InvalidPair => (pc \notin {"select", "reply", "human", "exec"}
                    /\ result = "InvalidOutcome")

(***************************************************************************)
(* C3: every step that executes a command is taken by the Executor in a   *)
(* turn in which the human's decision has been read and was an approval   *)
(* (the empty line).                                                       *)
(***************************************************************************)
C3_ApprovalBeforeExecution ==
    [][execs' # execs =>
         (speaker = "Executor" /\ pc = "exec" /\ human_reply = Approve)]_vars

C3_Witness ==
    /\ execs > 0
    /\ human_reply = Approve
    /\ Len(messages) > 1
    /\ Last.name = "Executor"
    /\ Last.kind \in {"TEST_PASS", "TEST_FAIL"}

(***************************************************************************)
(* C4: the round counter counts the turns appended, going up by exactly 1 *)
(* with each one, it never passes the ceiling max_round (50), and once it *)
(* has reached the ceiling the session is over, whatever the turns were.  *)
(***************************************************************************)
C4_RoundBudget ==
    /\ [](/\ round = Len(messages)
          /\ round <= max_round
          /\ (round = max_round => pc = "done"))
    /\ [][\/ (Len(messages') = Len(messages) + 1 /\ round' = round + 1)
          \/ (messages' = messages /\ round' = round)]_vars

C4_Witness ==
    /\ round = max_round
    /\ pc = "done"
    /\ Last = ExecutionTurn(1)
    /\ messages[Len(messages) - 1] = Turn("Coder", "CODE_WRITTEN", NoOne)

(***************************************************************************)
(* C5: the transcript is append-only: every step leaves the transcript it *)
(* found as a prefix of the transcript it leaves.                         *)
(***************************************************************************)
C5_AppendOnly == [][IsPrefix(messages, messages')]_vars

C5_Witness ==
    /\ Len(messages) >= 3
    /\ messages[1] = initial_task
    /\ messages[2].name # messages[3].name

C7_OverrideRouting ==
    /\ [][(pc = "human" /\ human_reply' \in Instructions) =>
            (/\ messages' = Append(messages, HumanTurn(human_reply'))
             /\ execs' = execs)]_vars
    /\ []((Speaking /\ Last.kind = "HUMAN_TEXT" /\ Last.names \in Agents)
            => speaker = Last.names)

(***************************************************************************)
(* C8: when the approval prompt finds the input closed, the session is in *)
(* its terminated state with a status: initiate_chat has returned.        *)
(* Fails: the EOFError of input() is caught nowhere.                      *)
(***************************************************************************)
C8_ClosedInputTerminates ==
    human_reply = EndOfInput => (pc = "done" /\ result = RunChatReturn)

C10_TerminateEnds ==
    \A k \in 1..Len(messages) :
        ExecutorIsTermination(messages[k]) => (k = Len(messages) /\ pc = "done")

====
